---- MODULE Spec2Model ----
(***************************************************************************)
(* Course data provider plugin: the course computation worker              *)
(* (worker/course.ts), the plugin's orchestration (index.ts) and the       *)
(* threshold watchers that turn results into notifications.                *)
(*                                                                         *)
(* Numbers are integers.  Angles in radians are counted in quarter turns   *)
(* (PI == 2 units), so cosines of the angles of the model are exactly      *)
(* 1, 0 and -1; distances are in metres, times in milliseconds.            *)
(***************************************************************************)
EXTENDS Integers, Sequences, FiniteSets, TLC

VARIABLES
    \* ---- plugin (index.ts) ----
    srcPaths,        \* latest value of every subscribed path
    config,          \* applied plugin configuration
    courseCalcs,     \* last applied result
    watchArrival,    \* Watcher on the distance to the arrival circle
    watchPassedDest, \* Watcher on passedPerpendicular
    toWorker,        \* messages posted to the worker, not yet processed
    fromWorker,      \* results posted by the worker, not yet applied
    toWorkerAge,     \* per message of toWorker: the requests posted after it
                     \* that are still in flight (waiting, or their result is)
    fromWorkerAge,   \* per result of fromWorker: the same, for its request
    fromWorkerCircle,\* per result of fromWorker: its request's arrivalCircle
    emitted,         \* watcher events the last handler run emitted
    handled,         \* what the last handler run gave to server.handleMessage
    raised,          \* per notification path: the last notification sent
    response,        \* what the last handler run answered to a GET, if any
    baconSub,        \* the stream subscriptions are held
    obs,             \* the subscriptions to the watchers' change$ are held
    \* ---- worker (worker/course.ts) ----
    activeDest,      \* worker: a destination was active at the last message
    staleCounter,    \* counter-based worker: consecutive stale messages
    stalePosted,     \* worker fed a stream: posts made in the current stale run
    staleRun,        \* worker fed a stream: length of the current stale run
    hadValid,        \* worker fed a stream: a valid message was processed
    \* ---- one snapshot computed twice ----
    snap,            \* the snapshot handed to the worker
    now,             \* wall clock (ms)
    pc,              \* "ready", "once", "twice"
    res1, res2,      \* what the two calls posted
    \* ---- a Watcher on its own ----
    watch,           \* the Watcher
    watchEmitted,    \* events the last operation emitted on change$
    watchLast        \* type of the latest event emitted so far

vars == <<srcPaths, config, courseCalcs, watchArrival, watchPassedDest,
          toWorker, fromWorker, toWorkerAge, fromWorkerAge, fromWorkerCircle,
          emitted, handled, raised, response, baconSub, obs, activeDest,
          staleCounter, stalePosted, staleRun, hadValid, snap, now, pc,
          res1, res2, watch, watchEmitted, watchLast>>

pluginVars  == <<srcPaths, config, courseCalcs, watchArrival, watchPassedDest,
                 toWorker, fromWorker, toWorkerAge, fromWorkerAge,
                 fromWorkerCircle, emitted, handled, raised, response,
                 baconSub, obs>>
subsVars    == <<baconSub, obs>>
staleVars   == <<staleCounter, stalePosted, staleRun, hadValid>>
engineVars  == <<snap, now, pc, res1, res2>>
watcherVars == <<watch, watchEmitted, watchLast>>

----------------------------------------------------------------------------
(* JavaScript values.  A value carries its type tag, so that undefined,    *)
(* null, 0 and false stay distinct.                                        *)

Undefined == [t |-> "undefined", v |-> 0]
Null      == [t |-> "null", v |-> 0]
Num(n)    == [t |-> "number", v |-> n]
Bool(b)   == [t |-> "boolean", v |-> IF b THEN 1 ELSE 0]
\* an ISO-8601 instant, kept as the instant it denotes
IsoDate(ms) == [t |-> "isodate", v |-> ms]
\* a position object {latitude, longitude}, in whole degrees
Position(lat, lon) == [t |-> "object", latitude |-> lat, longitude |-> lon]

\* typeof x === 'number'
IsNumber(x) == x.t = "number"
\* JavaScript truthiness of the values above
Truthy(x) ==
    CASE x.t = "undefined" -> FALSE
      [] x.t = "null"      -> FALSE
      [] x.t = "number"    -> x.v # 0
      [] x.t = "boolean"   -> x.v = 1
      [] OTHER             -> TRUE
\* x ?? d
Coalesce(x, d) == IF x.t \in {"undefined", "null"} THEN d ELSE x

Abs(n) == IF n < 0 THEN -n ELSE n
RECURSIVE ScaleDiv(_, _, _, _)
\* long division: from q = a \div k and r = a % k to those of a * 10^n
ScaleDiv(q, r, k, n) ==
    IF n = 0 THEN [q |-> q, r |-> r]
    ELSE ScaleDiv(q * 10 + ((r * 10) \div k), (r * 10) % k, k, n - 1)
\* the same quotient cut off towards zero
TruncMillionths(a, k) ==
    LET d == Abs(k)
        s == ScaleDiv(a \div d, a % d, d, 6)
    IN  IF k > 0 THEN s.q ELSE -s.q

\* Math.floor(a * 10^6 / k) for a >= 0 and k # 0, without leaving 32 bits
FloorMillionths(a, k) ==
    LET d == Abs(k)
        s == ScaleDiv(a \div d, a % d, d, 6)
    IN  IF k > 0 THEN s.q
        ELSE IF s.r = 0 THEN -s.q ELSE -(s.q + 1)

----------------------------------------------------------------------------
(* lib/geodesy/latlon-spherical.js (LatLonSpherical).  The library is      *)
(* stood in for by integer functions of the two points that keep what the  *)
(* worker relies on: each is a deterministic function of its arguments,    *)
(* rhumb and great-circle values agree along a meridian or parallel and    *)
(* differ elsewhere, bearings come in degrees, the cross-track distance    *)
(* is signed.                                                              *)

MetresPerDegree == 10

dLat(a, b) == b.latitude - a.latitude
dLon(a, b) == b.longitude - a.longitude
MaxOf(m, n) == IF m >= n THEN m ELSE n

\* a.distanceTo(b), metres
distanceTo(a, b) == MetresPerDegree * MaxOf(Abs(dLat(a, b)), Abs(dLon(a, b)))
\* a.rhumbDistanceTo(b), metres
rhumbDistanceTo(a, b) == MetresPerDegree * (Abs(dLat(a, b)) + Abs(dLon(a, b)))
\* a.initialBearingTo(b), degrees: the dominant compass direction
initialBearingTo(a, b) ==
    IF Abs(dLat(a, b)) >= Abs(dLon(a, b))
    THEN (IF dLat(a, b) >= 0 THEN 0 ELSE 180)
    ELSE (IF dLon(a, b) > 0 THEN 90 ELSE 270)
\* a.rhumbBearingTo(b), degrees: the longitude decides first
rhumbBearingTo(a, b) ==
    IF dLon(a, b) # 0
    THEN (IF dLon(a, b) > 0 THEN 90 ELSE 270)
    ELSE (IF dLat(a, b) >= 0 THEN 0 ELSE 180)
\* p.crossTrackDistanceTo(start, end), metres, signed (+ right of track)
crossTrackDistanceTo(p, start, end) ==
    MetresPerDegree *
      (dLon(start, p) * dLat(start, end) - dLat(start, p) * dLon(start, end))

----------------------------------------------------------------------------
(* worker/course.ts                                                        *)

\* Math.PI, in quarter turns
PI == 2
\* Math.cos of an angle in quarter turns
Cos(x) == CASE x % 4 = 0 -> 1
            [] x % 4 = 2 -> -1
            [] OTHER     -> 0

toRadians(value) == (value * PI) \div 180

\* fields of a CourseResult
ResultFields == {"calcMethod", "bearingTrackTrue", "bearingTrackMagnetic",
                 "crossTrackError", "distance", "bearingTrue",
                 "bearingMagnetic", "velocityMadeGood", "timeToGo",
                 "estimatedTimeOfArrival", "previousPointDistance"}
\* the object literal {}
EmptyResult == [f \in ResultFields |-> Undefined]

parseSKPaths(src) ==
    IF Truthy(src.position) /\ Truthy(src.nextPoint)
         /\ Truthy(src.previousPoint)
    THEN TRUE ELSE FALSE

\* vmg that only asks for the heading: a missing speed counts as 0
vmgHeadingOnly(src, bearingTrue) ==
    IF ~IsNumber(src.headingTrue)
    THEN Null
    ELSE Num(Cos(bearingTrue - src.headingTrue.v)
               * (IF IsNumber(src.speedOverGround)
                  THEN src.speedOverGround.v ELSE 0))

\* Velocity Made Good to Course
vmg(src, bearingTrue) ==
    IF ~IsNumber(src.headingTrue) \/ ~IsNumber(src.speedOverGround)
    THEN Null
    ELSE Num(Cos(bearingTrue - src.headingTrue.v) * src.speedOverGround.v)

\* timeCalcs that always starts from the wall clock
timeCalcsFromClock(src, distance, vmgVal, clock) ==
    IF ~IsNumber(distance) \/ ~Truthy(vmgVal)
    THEN [ttg |-> Null, eta |-> Null]
    ELSE LET ttgMsec == FloorMillionths(distance.v * 1000, vmgVal.v * 514444)
         IN  [ttg |-> Num(ttgMsec), eta |-> IsoDate(clock + ttgMsec)]

\* Time to Go & Estimated time of arrival at the nextPoint.
\* (distance / (vmg * 0.514444)) * 1000
\*    = distance * 1000 * 10^6 / (vmg * 514444);
\* ttg is kept in milliseconds (the code's ttgMsec / 1000 is in seconds).
timeCalcs(src, distance, vmgVal, clock) ==
    IF ~IsNumber(distance) \/ ~Truthy(vmgVal)
    THEN [ttg |-> Null, eta |-> Null]
    ELSE LET dateMsec == IF Truthy(src.datetime) THEN src.datetime.v
                         ELSE clock
             ttgMsec  == FloorMillionths(distance.v * 1000, vmgVal.v * 514444)
             etaMsec  == dateMsec + ttgMsec
         IN  [ttg |-> Num(ttgMsec), eta |-> IsoDate(etaMsec)]

\* calc longitudinal difference (inc dateline transition)
xDiff(a, b) ==
    LET bx == IF a > 170 /\ b < 0 THEN a + (180 - a) + (180 + b)
              ELSE IF a < -170 /\ b > 0 THEN a - (180 + a) - (180 - b)
              ELSE b
    IN  bx - a

\* length is kept squared
toVector(origin, end) ==
    LET x == xDiff(origin.longitude, end.longitude)
        y == end.latitude - origin.latitude
    IN  [x |-> x, y |-> y, length2 |-> x * x + y * y]

\* Pairs <<A, B>>, A <= B, of squared lengths of parallel vectors with whole
\* coordinates (squared lengths up to 200) for which the product of the two
\* rounded square roots, Math.sqrt(A) * Math.sqrt(B) in IEEE-754 doubles, is
\* below the exact sqrt(A * B): e.g. Math.sqrt(13) * Math.sqrt(13) is
\* 12.999999999999998.  Lengths that are whole numbers multiply exactly.
ProductRoundsBelow ==
    {<<13, 13>>, <<13, 52>>, <<18, 18>>, <<18, 72>>, <<18, 98>>, <<18, 162>>,
     <<26, 26>>, <<26, 104>>, <<29, 29>>, <<29, 116>>, <<37, 37>>,
     <<37, 148>>, <<52, 52>>, <<61, 61>>, <<65, 65>>, <<72, 72>>, <<72, 98>>,
     <<72, 162>>, <<73, 73>>, <<89, 89>>, <<97, 97>>, <<104, 104>>,
     <<116, 116>>, <<148, 148>>, <<149, 149>>, <<153, 153>>, <<193, 193>>,
     <<197, 197>>}

\* Math.acos(dot / (va.length * vb.length)) is NaN: the quotient of two
\* parallel vectors, +-1 in exact arithmetic, lands outside [-1, 1] when the
\* product of the lengths was rounded below
AcosIsNaN(va, vb) ==
    /\ va.x * vb.y - va.y * vb.x = 0
    /\ \/ <<va.length2, vb.length2>> \in ProductRoundsBelow
       \/ <<vb.length2, va.length2>> \in ProductRoundsBelow

\* return true if vessel is past perpendicular of destination.
\* acos(q) > 90 degrees exactly when q < 0; a zero-length vector makes q
\* NaN, as does a quotient outside [-1, 1], and NaN > 90 is false
passedPerpendicular(vesselPosition, destination, startPoint) ==
    LET va == toVector(destination, vesselPosition)
        vb == toVector(destination, startPoint)
    IN  IF va.length2 = 0 \/ vb.length2 = 0 THEN FALSE
        ELSE IF AcosIsNaN(va, vb) THEN FALSE
        ELSE (va.x * vb.x + va.y * vb.y) < 0

\* a magnetic bearing that takes a variation of 0 for a missing one
magneticIfTruthy(trueBearing, magvar) ==
    IF Truthy(magvar) THEN Num(trueBearing - magvar.v) ELSE Null

\* if (typeof src['navigation.magneticVariation'] === 'number')
\*     magnetic = true - variation, and null otherwise
magnetic(trueBearing, magvar) ==
    IF IsNumber(magvar) THEN Num(trueBearing - magvar.v) ELSE Null

\* a cross-track error of the rhumbline branch's own
rlCrossTrackErrorOwn(xte, vesselPosition, startPoint, destination) ==
    xte + rhumbDistanceTo(vesselPosition, destination)
        - distanceTo(vesselPosition, destination)

\* the rhumbline branch's cross-track error
rlCrossTrackError(xte, vesselPosition, startPoint, destination) == xte

\* course calculations, once the three points are known to be there
calcsValid(src, clock) ==
    LET vesselPosition == src.position
        destination    == src.nextPoint
        startPoint     == src.previousPoint
        magvar         == src.magneticVariation
        xte == crossTrackDistanceTo(vesselPosition, startPoint, destination)
        \* Great Circle
        bearingTrackTrue == toRadians(initialBearingTo(startPoint, destination))
        bearingTrue == toRadians(initialBearingTo(vesselPosition, destination))
        bearingTrackMagnetic == magnetic(bearingTrackTrue, magvar)
        bearingMagnetic == magnetic(bearingTrue, magvar)
        gcDistance == Num(distanceTo(vesselPosition, destination))
        gcVmg  == vmg(src, bearingTrue)
        gcTime == timeCalcs(src, gcDistance, gcVmg, clock)
        \* Rhumbline
        rlBearingTrackTrue == toRadians(rhumbBearingTo(startPoint, destination))
        rlBearingTrue == toRadians(rhumbBearingTo(vesselPosition, destination))
        rlBearingTrackMagnetic == magnetic(rlBearingTrackTrue, magvar)
        rlBearingMagnetic == magnetic(rlBearingTrue, magvar)
        rlDistance == Num(rhumbDistanceTo(vesselPosition, destination))
        rlVmg  == vmg(src, rlBearingTrue)
        rlTime == timeCalcs(src, rlDistance, rlVmg, clock)
    IN  [gc |-> [calcMethod |-> [t |-> "string", v |-> 1],
                 bearingTrackTrue |-> Num(bearingTrackTrue),
                 bearingTrackMagnetic |-> bearingTrackMagnetic,
                 crossTrackError |-> Num(xte),
                 distance |-> gcDistance,
                 bearingTrue |-> Num(bearingTrue),
                 bearingMagnetic |-> bearingMagnetic,
                 velocityMadeGood |-> gcVmg,
                 timeToGo |-> gcTime.ttg,
                 estimatedTimeOfArrival |-> gcTime.eta,
                 previousPointDistance |->
                     Num(distanceTo(vesselPosition, startPoint))],
         rl |-> [calcMethod |-> [t |-> "string", v |-> 2],
                 bearingTrackTrue |-> Num(rlBearingTrackTrue),
                 bearingTrackMagnetic |-> rlBearingTrackMagnetic,
                 crossTrackError |->
                     Num(rlCrossTrackError(xte, vesselPosition, startPoint,
                                           destination)),
                 distance |-> rlDistance,
                 bearingTrue |-> Num(rlBearingTrue),
                 bearingMagnetic |-> rlBearingMagnetic,
                 velocityMadeGood |-> rlVmg,
                 timeToGo |-> rlTime.ttg,
                 estimatedTimeOfArrival |-> rlTime.eta,
                 previousPointDistance |->
                     Num(rhumbDistanceTo(vesselPosition, startPoint))],
         passedPerpendicular |->
             Bool(passedPerpendicular(vesselPosition, destination, startPoint))]

\* calcs that forgets to ask for the start point
calcsPartial(src, clock) ==
    IF ~Truthy(src.position) \/ ~Truthy(src.nextPoint)
    THEN [gc |-> EmptyResult, rl |-> EmptyResult,
          passedPerpendicular |-> Bool(FALSE)]
    ELSE IF ~Truthy(src.previousPoint)
    THEN [gc |-> [EmptyResult EXCEPT
                    !.distance = Num(distanceTo(src.position, src.nextPoint))],
          rl |-> [EmptyResult EXCEPT
                    !.distance =
                        Num(rhumbDistanceTo(src.position, src.nextPoint))],
          passedPerpendicular |-> Bool(FALSE)]
    ELSE calcsValid(src, clock)

\* course calculations
calcs(src, clock) ==
    IF ~Truthy(src.position) \/ ~Truthy(src.nextPoint)
         \/ ~Truthy(src.previousPoint)
    THEN [gc |-> EmptyResult, rl |-> EmptyResult,
          passedPerpendicular |-> Bool(FALSE)]
    ELSE calcsValid(src, clock)

\* the message { gc: {}, rl: {} } that invalidates all result values
InvalidatingResult ==
    [gc |-> EmptyResult, rl |-> EmptyResult, passedPerpendicular |-> Undefined]

\* a handler that answers every insufficient message with the invalidating
\* result
onMessageEveryStale(message, active, clock) ==
    IF parseSKPaths(message)
    THEN [post |-> <<calcs(message, clock)>>, activeDest |-> TRUE]
    ELSE [post |-> <<InvalidatingResult>>, activeDest |-> FALSE]

\* parentPort.on('message'): what is posted back, and the new activeDest
onMessage(message, active, clock) ==
    IF parseSKPaths(message)
    THEN [post |-> <<calcs(message, clock)>>, activeDest |-> TRUE]
    ELSE IF active
         THEN [post |-> <<InvalidatingResult>>, activeDest |-> FALSE]
         ELSE [post |-> <<>>, activeDest |-> active]

----------------------------------------------------------------------------
(* The counter-based message handler of the worker (staleCounter).         *)

MAX_STALE_COUNT == 20

\* validate source data: the answer and the new staleCounter
parseSKPathsCounting(src, counter) ==
    IF Truthy(src.position) /\ Truthy(src.nextPoint)
         /\ Truthy(src.previousPoint)
    THEN [valid |-> TRUE, staleCounter |-> 0]
    ELSE [valid |-> FALSE, staleCounter |-> counter + 1]

\* message from main thread: what is posted ("computed" for calcs(message),
\* "invalidating" for { gc: {}, rl: {} }) and the new staleCounter
onMessageCounting(message, counter) ==
    LET parsed == parseSKPathsCounting(message, counter)
    IN  IF parsed.valid
        THEN [post |-> <<"computed">>, staleCounter |-> parsed.staleCounter]
        ELSE IF parsed.staleCounter > MAX_STALE_COUNT
             THEN [post |-> <<"invalidating">>, staleCounter |-> 0]
             ELSE [post |-> <<>>, staleCounter |-> parsed.staleCounter]

----------------------------------------------------------------------------
(* lib/alarms: Watcher.  A range [rangeMin, rangeMax) and a membership     *)
(* (Outside at first); assigning value is the observation, and an event    *)
(* goes out on change$ exactly when the membership changes.  Every         *)
(* operation gives the new watcher and the events it emitted.              *)

NewWatcher ==
    [rangeMin |-> 0, rangeMax |-> 0, value |-> -1, inside |-> FALSE]

WatcherInRange(w, val) == w.rangeMin <= val /\ val < w.rangeMax

\* set rangeMin(val)
WatcherSetRangeMin(w, val) ==
    [w |-> [w EXCEPT !.rangeMin = val], events |-> <<>>]

\* set rangeMax(val)
WatcherSetRangeMax(w, val) ==
    [w |-> [w EXCEPT !.rangeMax = val], events |-> <<>>]

\* a watcher that reports every observation, changed membership or not
WatcherSetValueAlways(w, val) ==
    LET in == WatcherInRange(w, val)
    IN  [w |-> [w EXCEPT !.value = val, !.inside = in],
         events |-> <<[type |-> IF in THEN "enter" ELSE "exit",
                       value |-> val]>>]

\* set value(val)
WatcherSetValue(w, val) ==
    LET in == WatcherInRange(w, val)
    IN  [w |-> [w EXCEPT !.value = val, !.inside = in],
         events |-> IF in # w.inside
                    THEN <<[type |-> IF in THEN "enter" ELSE "exit",
                            value |-> val]>>
                    ELSE <<>>]

----------------------------------------------------------------------------
(* index.ts                                                                *)

\* const watchPassedDest = new Watcher(); rangeMin = 1; rangeMax = 2
NewWatchPassedDest ==
    WatcherSetRangeMax(WatcherSetRangeMin(NewWatcher, 1).w, 2).w

\* calcResult, watchArrival: the range only ever widens
calcResultArrivalWidest(w, paths, result) ==
    LET r == WatcherSetRangeMax(w,
                 MaxOf(w.rangeMax, Coalesce(paths.arrivalCircle, Num(-1)).v))
        o == WatcherSetValue(r.w, Coalesce(result.gc.distance, Num(-1)).v)
    IN  [w |-> o.w, events |-> r.events \o o.events]

\* calcResult, watchArrival: a missing distance is watched as 0
calcResultArrivalZero(w, paths, result) ==
    LET r == WatcherSetRangeMax(w, Coalesce(paths.arrivalCircle, Num(-1)).v)
        o == WatcherSetValue(r.w, Coalesce(result.gc.distance, Num(0)).v)
    IN  [w |-> o.w, events |-> r.events \o o.events]

\* calcResult, watchArrival: the value is assigned before the range
calcResultArrivalValueFirst(w, paths, result) ==
    LET o == WatcherSetValue(w, Coalesce(result.gc.distance, Num(-1)).v)
        r == WatcherSetRangeMax(o.w, Coalesce(paths.arrivalCircle, Num(-1)).v)
    IN  [w |-> r.w, events |-> o.events \o r.events]

\* calcResult, watchArrival: the rhumbline distance is watched
calcResultArrivalRhumb(w, paths, result) ==
    LET r == WatcherSetRangeMax(w, Coalesce(paths.arrivalCircle, Num(-1)).v)
        o == WatcherSetValue(r.w, Coalesce(result.rl.distance, Num(-1)).v)
    IN  [w |-> o.w, events |-> r.events \o o.events]

\* calcResult: watchArrival.rangeMax = ...; watchArrival.value = ...
calcResultArrival(w, paths, result) ==
    LET r == WatcherSetRangeMax(w, Coalesce(paths.arrivalCircle, Num(-1)).v)
        o == WatcherSetValue(r.w, Coalesce(result.gc.distance, Num(-1)).v)
    IN  [w |-> o.w, events |-> r.events \o o.events]

\* calcResult, watchPassedDest: the flag is watched as 0 / 2
calcResultPassedDestTwo(w, result) ==
    WatcherSetValue(w, IF Truthy(result.passedPerpendicular) THEN 2 ELSE 0)

\* calcResult: watchPassedDest.value = result.passedPerpendicular ? 1 : 0
calcResultPassedDest(w, result) ==
    WatcherSetValue(w, IF Truthy(result.passedPerpendicular) THEN 1 ELSE 0)

\* new Notification(path, null) / new Notification(path, message, state, method)
ClearNotification(path) ==
    [path |-> path, state |-> "null", method |-> <<>>, value |-> 0,
     limit |-> 0]
AlertNotification(path, method, value, limit) ==
    [path |-> path, state |-> "alert", method |-> method, value |-> value,
     limit |-> limit]

\* what onArrivalCircleEvent hands to emitNotification
onArrivalCircleEvent(event, paths, cfg, w) ==
    LET alarmMethod == IF cfg.sound THEN <<"sound", "visual">>
                       ELSE <<"visual">>
    IN  IF event.type = "enter"
        THEN IF Truthy(paths.position)
             THEN <<AlertNotification("navigation.course.arrivalCircleEntered",
                                      alarmMethod, event.value, w.rangeMax)>>
             ELSE <<>>
        ELSE IF event.type = "exit"
        THEN <<ClearNotification("navigation.course.arrivalCircleEntered")>>
        ELSE <<>>

\* what onPassedDestEvent hands to emitNotification
onPassedDestEvent(event, paths, cfg, w) ==
    IF event.type = "enter"
    THEN IF Truthy(paths.position)
         THEN <<AlertNotification("navigation.course.perpendicularPassed",
                                  <<>>, w.value, 0)>>
         ELSE <<>>
    ELSE IF event.type = "exit"
    THEN <<ClearNotification("navigation.course.perpendicularPassed")>>
    ELSE <<>>

\* watchArrival.change$.subscribe: the handler runs for every event, in order
RECURSIVE arrivalSubscription(_, _, _, _)
arrivalSubscription(events, paths, cfg, w) ==
    IF events = <<>> THEN <<>>
    ELSE onArrivalCircleEvent(Head(events), paths, cfg, w)
           \o arrivalSubscription(Tail(events), paths, cfg, w)

\* watchPassedDest.change$.subscribe
RECURSIVE passedDestSubscription(_, _, _, _)
passedDestSubscription(events, paths, cfg, w) ==
    IF events = <<>> THEN <<>>
    ELSE onPassedDestEvent(Head(events), paths, cfg, w)
           \o passedDestSubscription(Tail(events), paths, cfg, w)

\* a port that hands over the newest message first
postMessageAhead(port, messages) == messages \o port

\* worker.postMessage / parentPort.postMessage: the messages join the port's
\* queue behind those already waiting
postMessage(port, messages) == port \o messages

\* one more request was posted
Older(ages) == [i \in DOMAIN ages |-> ages[i] + 1]
\* the request of age a is no longer in flight
Left(ages, a) ==
    [i \in DOMAIN ages |-> IF ages[i] > a THEN ages[i] - 1 ELSE ages[i]]

\* trigger course calculations: what is posted to the worker
calc(paths) == IF Truthy(paths.position) THEN <<paths>> ELSE <<>>

\* a subscription that triggers the calculation for every path
onValueEveryPath(paths, path, value) ==
    LET stored == [paths EXCEPT ![path] = value]
    IN  [srcPaths |-> stored, post |-> calc(stored)]

\* getSelfBus(path).onValue: the stored paths and what is posted
onValue(paths, path, value) ==
    LET stored == [paths EXCEPT ![path] = value]
    IN  [srcPaths |-> stored,
         post |-> IF path = "position" THEN calc(stored) ELSE <<>>]

\* let config = { notifications: { sound: false },
\*                calculations: { method: 'GreatCircle', autopilot: false } }
DefaultConfig ==
    [method |-> "GreatCircle", sound |-> FALSE, autopilot |-> FALSE]

\* doStartup: the options become the configuration only when they carry both
\* notifications.sound and calculations.method (a method that is not there is
\* written "undefined")
doStartup(options) ==
    IF options.sound # Undefined /\ options.method # "undefined"
    THEN [method |-> options.method, sound |-> Truthy(options.sound),
          autopilot |-> Truthy(options.autopilot)]
    ELSE DefaultConfig

\* no GET was answered
NoResponse == [status |-> 0, body |-> Undefined]
\* GET .../navigation/course/calcValues: courseCalcs?.rl or courseCalcs?.gc,
\* 400 when that is falsy (an object, {} included, is truthy)
getCalcValues(course, cfg) ==
    LET selected == IF course = Undefined THEN Undefined
                    ELSE IF cfg.method = "Rhumbline" THEN course.rl
                    ELSE course.gc
    IN  IF selected = Undefined THEN [status |-> 400, body |-> Undefined]
        ELSE [status |-> 200, body |-> selected]

\* typeof x === 'undefined' ? null : x
NullIfUndefined(x) == IF x = Undefined THEN Null ELSE x

\* a delta that always reports the great-circle distance
buildDeltaMsgGcDistance(course, cfg) ==
    LET source == IF cfg.method = "Rhumbline" THEN course.rl ELSE course.gc
    IN  [calcValues |->
            [f \in ResultFields \cup {"targetSpeed"} |->
                IF f = "calcMethod" THEN source.calcMethod
                ELSE IF f = "targetSpeed" THEN Null
                ELSE IF f = "distance" THEN NullIfUndefined(course.gc[f])
                ELSE NullIfUndefined(source[f])],
         autopilot |->
            IF cfg.autopilot
            THEN <<NullIfUndefined(source.bearingTrue),
                   NullIfUndefined(source.bearingMagnetic)>>
            ELSE <<>>]

\* the values of the calcValues delta
buildDeltaMsg(course, cfg) ==
    LET source == IF cfg.method = "Rhumbline" THEN course.rl ELSE course.gc
    IN  [calcValues |->
            [f \in ResultFields \cup {"targetSpeed"} |->
                IF f = "calcMethod" THEN source.calcMethod
                ELSE IF f = "targetSpeed" THEN Null
                ELSE NullIfUndefined(source[f])],
         autopilot |->
            IF cfg.autopilot
            THEN <<NullIfUndefined(source.bearingTrue),
                   NullIfUndefined(source.bearingMagnetic)>>
            ELSE <<>>]

\* the state of each notification path after the notifications sent
RECURSIVE Notified(_, _)
Notified(state, notes) ==
    IF notes = <<>> THEN state
    ELSE Notified([state EXCEPT ![Head(notes).path] = Head(notes).state],
                  Tail(notes))

NotificationPaths == {"navigation.course.arrivalCircleEntered",
                      "navigation.course.perpendicularPassed"}

RECURSIVE Tagged(_, _)
\* the events of one watcher, with the watcher's name
Tagged(name, events) ==
    IF events = <<>> THEN <<>>
    ELSE <<[watcher |-> name, type |-> Head(events).type,
            value |-> Head(events).value]>> \o Tagged(name, Tail(events))

----------------------------------------------------------------------------
(* Inputs.                                                                 *)

\* srcPaths / SKPaths: the paths of SRC_PATHS that the plugin or the worker
\* reads (targetArrivalTime and activeRoute.* are stored and never read)
Snapshot(pos, next, prev, circle, magvar, heading, sog, datetime) ==
    [position |-> pos, nextPoint |-> next, previousPoint |-> prev,
     arrivalCircle |-> circle, magneticVariation |-> magvar,
     headingTrue |-> heading, speedOverGround |-> sog, datetime |-> datetime]

NoPaths == Snapshot(Null, Null, Null, Null, Null, Null, Null, Null)

\* start (0,0), destination (0,10)
StartPoint  == Position(0, 0)
Destination == Position(0, 10)

MaxClock == 2
MaxStaleRun == 63
MaxInFlight == 2
MaxWatchValue == 3

\* values the stream buses deliver to the plugin: a vessel 50 m short of the
\* destination, and one beyond it, 10 m away by great circle and 20 m by
\* rhumb line; an arrival circle of 15 m
StreamValues ==
    [position |-> {Null, Position(0, 5), Position(1, 11)},
     nextPoint |-> {Null, Destination},
     previousPoint |-> {StartPoint},
     arrivalCircle |-> {Null, Num(15)},
     magneticVariation |-> {Null},
     headingTrue |-> {Null},
     speedOverGround |-> {Null},
     datetime |-> {Null}]

EnginePoints == {Null, StartPoint, Destination, Position(0, 5),
                 Position(1, 9), Position(0, 15)}
EngineSnapshots ==
    {Snapshot(pos, next, prev, Null, magvar, heading, sog, datetime) :
        pos \in EnginePoints, next \in EnginePoints, prev \in EnginePoints,
        magvar \in {Null, Num(0), Num(1)},
        heading \in {Null, Num(0), Num(1), Num(2)},
        sog \in {Null, Num(0), Num(5)},
        datetime \in {Null, IsoDate(1000)}}

\* vessel and start point up to MaxOffset degrees around the destination
MaxOffset == 3
NearDestination ==
    {Position(Destination.latitude + dy, Destination.longitude + dx) :
        dx \in -MaxOffset .. MaxOffset, dy \in -MaxOffset .. MaxOffset}
\* points on the equator on either side of the antimeridian
DatelineLongitudes == {-179, -165, -5, 5, 165, 179}
NearDateline == {Position(0, lon) : lon \in DatelineLongitudes}
PassageSnapshots ==
    {Snapshot(pos, Destination, prev, Null, Null, Null, Null, Null) :
        pos \in NearDestination, prev \in NearDestination}
      \cup
    {Snapshot(pos, next, prev, Null, Null, Null, Null, Null) :
        pos \in NearDateline, next \in NearDateline, prev \in NearDateline}

\* options the plugin is started with: none saved yet, a complete set, and
\* one where the sound checkbox was never touched
StartOptions ==
    {[sound |-> Undefined, method |-> "undefined", autopilot |-> Undefined],
     [sound |-> Bool(FALSE), method |-> "Rhumbline", autopilot |-> Bool(TRUE)],
     [sound |-> Bool(TRUE), method |-> "GreatCircle", autopilot |-> Undefined],
     [sound |-> Undefined, method |-> "Rhumbline", autopilot |-> Bool(TRUE)]}

WorkerInputs ==
    {Snapshot(pos, next, prev, Null, Null, Null, Null, Null) :
        pos \in {Null, Position(0, 5)}, next \in {Null, Destination},
        prev \in {Null, StartPoint}}

----------------------------------------------------------------------------
(* State after construction and start() with the default configuration,   *)
(* on a server that has no value for any path yet.                         *)

Init ==
    /\ srcPaths = NoPaths
    /\ config = DefaultConfig
    /\ courseCalcs = Undefined
    /\ watchArrival = NewWatcher
    /\ watchPassedDest = NewWatchPassedDest
    /\ toWorker = <<>>
    /\ fromWorker = <<>>
    /\ toWorkerAge = <<>>
    /\ fromWorkerAge = <<>>
    /\ fromWorkerCircle = <<>>
    /\ emitted = <<>>
    /\ handled = <<>>
    /\ raised = [p \in NotificationPaths |-> "none"]
    /\ response = NoResponse
    /\ baconSub = TRUE
    /\ obs = TRUE
    /\ activeDest = FALSE
    /\ staleCounter = 0
    /\ stalePosted = 0
    /\ staleRun = 0
    /\ hadValid = FALSE
    /\ snap = NoPaths
    /\ now = 0
    /\ pc = "ready"
    /\ res1 = <<>>
    /\ res2 = <<>>
    /\ watch = NewWatcher
    /\ watchEmitted = <<>>
    /\ watchLast = "none"

----------------------------------------------------------------------------
(* The plugin, started, with its worker.                                   *)

\* streambundle.getSelfBus(path).onValue: store the value; a position
\* update runs calc(), which posts the paths to the worker
StreamUpdate ==
    \E path \in DOMAIN StreamValues : \E value \in StreamValues[path] :
        LET on == onValue(srcPaths, path, value)
        IN  /\ baconSub
            /\ on.post # <<>> => Len(toWorker) + Len(fromWorker) < MaxInFlight
            /\ srcPaths' = on.srcPaths
            /\ toWorker' = postMessage(toWorker, on.post)
            /\ toWorkerAge' =
                  IF on.post # <<>> THEN postMessage(Older(toWorkerAge), <<0>>)
                  ELSE toWorkerAge
            /\ fromWorkerAge' = IF on.post # <<>> THEN Older(fromWorkerAge)
                                ELSE fromWorkerAge
            /\ emitted' = <<>>
            /\ handled' = <<>>
            /\ response' = NoResponse
            /\ UNCHANGED <<config, courseCalcs, watchArrival, watchPassedDest,
                           fromWorker, fromWorkerCircle, raised, activeDest,
                           subsVars, staleVars, engineVars, watcherVars>>

\* the worker's parentPort.on('message'); messages are handled in the order
\* they were posted
WorkerMessage ==
    /\ toWorker # <<>>
    /\ LET out == onMessage(Head(toWorker), activeDest, now)
       IN  /\ fromWorker' = postMessage(fromWorker, out.post)
           /\ fromWorkerAge' =
                 IF out.post = <<>> THEN Left(fromWorkerAge, Head(toWorkerAge))
                 ELSE postMessage(fromWorkerAge,
                                  [i \in DOMAIN out.post |-> Head(toWorkerAge)])
           /\ toWorkerAge' =
                 IF out.post = <<>>
                 THEN Left(Tail(toWorkerAge), Head(toWorkerAge))
                 ELSE Tail(toWorkerAge)
           /\ fromWorkerCircle' =
                 postMessage(fromWorkerCircle,
                             [i \in DOMAIN out.post |->
                                 Head(toWorker).arrivalCircle])
           /\ activeDest' = out.activeDest
    /\ toWorker' = Tail(toWorker)
    /\ UNCHANGED <<srcPaths, config, courseCalcs, watchArrival,
                   watchPassedDest, emitted, handled, raised, response,
                   subsVars, staleVars, engineVars, watcherVars>>

\* worker.on('message'): calcResult(msg)
CalcResult ==
    /\ fromWorker # <<>>
    /\ LET result == Head(fromWorker)
           a == calcResultArrival(watchArrival, srcPaths, result)
           p == calcResultPassedDest(watchPassedDest, result)
           notes ==
               IF obs
               THEN arrivalSubscription(a.events, srcPaths, config, a.w)
                      \o passedDestSubscription(p.events, srcPaths, config,
                                                p.w)
               ELSE <<>>
       IN  /\ watchArrival' = a.w
           /\ watchPassedDest' = p.w
           /\ courseCalcs' = result
           /\ emitted' = Tagged("arrival", a.events)
                            \o Tagged("passedDest", p.events)
           /\ handled' = notes \o <<buildDeltaMsg(result, config)>>
           /\ raised' = Notified(raised, notes)
    /\ response' = NoResponse
    /\ fromWorker' = Tail(fromWorker)
    /\ fromWorkerAge' = Left(Tail(fromWorkerAge), Head(fromWorkerAge))
    /\ toWorkerAge' = Left(toWorkerAge, Head(fromWorkerAge))
    /\ fromWorkerCircle' = Tail(fromWorkerCircle)
    /\ UNCHANGED <<srcPaths, config, toWorker, activeDest, subsVars,
                   staleVars, engineVars, watcherVars>>

Next == StreamUpdate \/ WorkerMessage \/ CalcResult

Spec == Init /\ [][Next]_vars


\* a branch of a result is {} / has every field
IsEmptyBranch(b) == \A f \in ResultFields : b[f] = Undefined
IsFullBranch(b)  == \A f \in ResultFields : b[f] # Undefined
\* a step of calcResult
IsCalcResultStep == fromWorker # <<>> /\ fromWorker' = Tail(fromWorker)
\* the events of one watcher among those emitted
EventsOf(name, events) == SelectSeq(events, LAMBDA e : e.watcher = name)
\* the notifications among what was handed to server.handleMessage
NotificationsIn(messages) ==
    SelectSeq(messages, LAMBDA m : "path" \in DOMAIN m)
NotificationPathOf(name) ==
    IF name = "arrival" THEN "navigation.course.arrivalCircleEntered"
    ELSE "navigation.course.perpendicularPassed"

\* C2: assigning rangeMax emits nothing and leaves the membership alone:
\* every applied result gives at most one arrival event, decided by the
\* newly observed distance against the refreshed bounds and by nothing else,
\* and no other step emits an event or touches a watcher.
C2_Step ==
    IF IsCalcResultStep
    THEN LET result == Head(fromWorker)
             newMax == Coalesce(srcPaths.arrivalCircle, Num(-1)).v
             newVal == Coalesce(result.gc.distance, Num(-1)).v
             in     == watchArrival.rangeMin <= newVal /\ newVal < newMax
             ev     == EventsOf("arrival", emitted')
         IN  /\ watchArrival'.rangeMax = newMax
             /\ watchArrival'.value = newVal
             /\ watchArrival'.inside = in
             /\ Len(ev) <= 1
             /\ (ev # <<>>) <=> (in # watchArrival.inside)
             /\ ev # <<>> =>
                  /\ ev[1].type = (IF in THEN "enter" ELSE "exit")
                  /\ ev[1].value = newVal
    ELSE /\ emitted' = <<>> \/ emitted' = emitted
         /\ UNCHANGED <<watchArrival, watchPassedDest>>
C2_RangeRefreshIsSilent == [][C2_Step]_vars

\* the arrival circle was cleared and the same distance then left the range
C2_Witness ==
    /\ watchArrival.rangeMax = -1
    /\ \E i \in DOMAIN emitted :
          emitted[i] = [watcher |-> "arrival", type |-> "exit", value |-> 10]

\* C3: with arrival circle radius R, a result whose great-circle distance is
\* below R applied while the arrival watcher is Outside emits exactly one
\* enter carrying that distance; a result whose distance is not below R
\* applied while the watcher is Inside emits exactly one exit carrying it.
C3_Step ==
    (/\ IsCalcResultStep
     /\ IsNumber(srcPaths.arrivalCircle)
     /\ IsNumber(Head(fromWorker).gc.distance)) =>
        LET R  == srcPaths.arrivalCircle.v
            d  == Head(fromWorker).gc.distance.v
            ev == EventsOf("arrival", emitted')
        IN  /\ (~watchArrival.inside /\ d < R) =>
                  ev = <<[watcher |-> "arrival", type |-> "enter",
                          value |-> d]>>
            /\ (watchArrival.inside /\ d >= R) =>
                  ev = <<[watcher |-> "arrival", type |-> "exit",
                          value |-> d]>>
C3_ArrivalEnterExit == [][C3_Step]_vars

\* the vessel was in the 15 m circle and is now seen 50 m away
C3_Witness ==
    /\ watchArrival.rangeMax = 15
    /\ \E i \in DOMAIN emitted :
          emitted[i] = [watcher |-> "arrival", type |-> "exit", value |-> 50]

\* the passage flag of the result applied last (none yet: not passed)
LastPassageFlag ==
    IF courseCalcs = Undefined THEN FALSE
    ELSE Truthy(courseCalcs.passedPerpendicular)

\* C4: after each applied result the passage watcher's membership equals the
\* result's passage flag; a 0 -> 1 change of the flag across successive
\* results emits exactly one enter, 1 -> 0 exactly one exit, no change
\* nothing.
C4_Step ==
    IsCalcResultStep =>
        LET flag == Truthy(Head(fromWorker).passedPerpendicular)
            ev   == EventsOf("passedDest", emitted')
        IN  /\ watchPassedDest'.inside = flag
            /\ (~LastPassageFlag /\ flag) =>
                  ev = <<[watcher |-> "passedDest", type |-> "enter",
                          value |-> 1]>>
            /\ (LastPassageFlag /\ ~flag) =>
                  ev = <<[watcher |-> "passedDest", type |-> "exit",
                          value |-> 0]>>
            /\ (LastPassageFlag = flag) => ev = <<>>
C4_PassageMirrorsFlag == [][C4_Step]_vars

\* the flag went from 1 back to 0
C4_Witness ==
    /\ ~watchPassedDest.inside
    /\ \E i \in DOMAIN emitted :
          emitted[i] = [watcher |-> "passedDest", type |-> "exit", value |-> 0]

\* every event emitted found its notification among those handled
C5_EventsNotified ==
    \A i \in DOMAIN emitted :
        \E j \in DOMAIN NotificationsIn(handled) :
            LET n == NotificationsIn(handled)[j]
            IN  /\ n.path = NotificationPathOf(emitted[i].watcher)
                /\ n.state = (IF emitted[i].type = "enter" THEN "alert"
                              ELSE "null")
\* a raise never follows a raise, a clearing always follows a raise
C5_Alternate ==
    IsCalcResultStep =>
        \A j \in DOMAIN NotificationsIn(handled') :
            LET n == NotificationsIn(handled')[j]
            IN  IF n.state = "alert" THEN raised[n.path] # "alert"
                ELSE raised[n.path] = "alert"
\* C5: every enter event of a watcher sends the alert notification of its
\* path and every exit event the clearing one, so that on each path raised
\* and cleared notifications alternate, starting with a raise.
C5_EveryEventNotifies == []C5_EventsNotified /\ [][C5_Alternate]_vars

\* C17: with several requests in flight, results are applied in the order
\* in which their requests were posted: the result being applied belongs to
\* a request older than every request still waiting and than the request of
\* every result still waiting, and the last applied result and both watchers
\* are those of that result.
C17_Step ==
    IsCalcResultStep =>
        /\ \A i \in DOMAIN toWorkerAge : toWorkerAge[i] < Head(fromWorkerAge)
        /\ \A i \in 2 .. Len(fromWorkerAge) :
              fromWorkerAge[i] < Head(fromWorkerAge)
        /\ courseCalcs' = Head(fromWorker)
        /\ watchArrival'.value =
              Coalesce(Head(fromWorker).gc.distance, Num(-1)).v
        /\ watchPassedDest'.value =
              (IF Truthy(Head(fromWorker).passedPerpendicular) THEN 1 ELSE 0)
C17_AppliedInRequestOrder ==
    [](Len(toWorkerAge) = Len(toWorker) /\ Len(fromWorkerAge) = Len(fromWorker))
      /\ [][C17_Step]_vars

\* two requests were answered before either result was applied; the older
\* result has been applied, the newer, different one waits
C17_Witness ==
    /\ handled # <<>>
    /\ toWorker = <<>>
    /\ Len(fromWorker) = 1 /\ fromWorkerAge = <<0>>
    /\ fromWorker[1] # courseCalcs
    /\ IsFullBranch(fromWorker[1].gc) /\ IsFullBranch(courseCalcs.gc)

\* the paths other than navigation.position
C18_OtherPaths == DOMAIN StreamValues \ {"position"}

\* C18: a request is posted only by an update of navigation.position that
\* leaves a non-null position stored, and it is the stored snapshot; an
\* update that changes any other path stores the value and posts nothing,
\* applies nothing and publishes nothing, and every request waiting for the
\* worker carries a position.
C18_Step ==
    /\ Len(toWorker') > Len(toWorker) =>
          /\ toWorker' = Append(toWorker, srcPaths')
          /\ Truthy(srcPaths'.position)
          /\ \A f \in C18_OtherPaths : srcPaths'[f] = srcPaths[f]
    /\ (\E f \in C18_OtherPaths : srcPaths'[f] # srcPaths[f]) =>
          /\ toWorker' = toWorker
          /\ handled' = <<>> /\ emitted' = <<>>
          /\ UNCHANGED <<courseCalcs, watchArrival, watchPassedDest, raised,
                         fromWorker>>
    /\ ~Truthy(srcPaths'.position) => Len(toWorker') <= Len(toWorker)
C18_PostsOnPositionOnly ==
    [](\A i \in DOMAIN toWorker : Truthy(toWorker[i].position))
      /\ [][C18_Step]_vars

\* the destination was cleared while the vessel was in the arrival circle:
\* nothing is in flight, and the last result and the watcher are untouched
C18_Witness ==
    /\ srcPaths.nextPoint = Null
    /\ toWorker = <<>> /\ fromWorker = <<>>
    /\ handled = <<>>
    /\ courseCalcs # Undefined
    /\ IsFullBranch(courseCalcs.gc)
    /\ watchArrival.inside

\* the notifications of one path among those handed to server.handleMessage
C19_NotificationsOn(path, messages) ==
    SelectSeq(NotificationsIn(messages), LAMBDA n : n.path = path)

\* C19: applying an invalidating (empty) result raises no alert; the arrival
\* watcher is fed -1 and the passage watcher 0, both end Outside, and every
\* alert that was raised is cleared by exactly one clearing notification.
C19_Step ==
    (IsCalcResultStep /\ Head(fromWorker) = InvalidatingResult) =>
        /\ watchArrival'.value = -1 /\ ~watchArrival'.inside
        /\ watchPassedDest'.value = 0 /\ ~watchPassedDest'.inside
        /\ \A p \in NotificationPaths :
              LET sent == C19_NotificationsOn(p, handled')
              IN  /\ \A i \in DOMAIN sent : sent[i].state = "null"
                  /\ raised[p] = "alert" => Len(sent) = 1
                  /\ raised'[p] # "alert"
C19_InvalidatingNeverAlerts == [][C19_Step]_vars

\* the destination went away while both alerts were raised: the invalidating
\* result was applied and cleared both
C19_Witness ==
    /\ courseCalcs = InvalidatingResult
    /\ handled # <<>>
    /\ Len(C19_NotificationsOn("navigation.course.arrivalCircleEntered",
                               handled)) = 1
    /\ Len(C19_NotificationsOn("navigation.course.perpendicularPassed",
                               handled)) = 1
    /\ \A p \in NotificationPaths : raised[p] = "null"
    /\ watchArrival.value = -1 /\ watchArrival.rangeMax = 15

\* C20 as stated: the radius a computed distance is evaluated against is the
\* arrival circle of the snapshot the distance was computed from, whatever
\* was stored while the computation was in flight.
C20_Stated ==
    IsCalcResultStep =>
        watchArrival'.rangeMax =
            Coalesce(Head(fromWorkerCircle), Num(-1)).v
C20_RadiusOfSnapshot == [][C20_Stated]_vars

\* C20 amended: the radius a computed distance is evaluated against is the
\* arrival circle stored at the moment the result is applied (-1 when none
\* is stored): it bounds the watcher's range, decides the membership, and is
\* the limit named in the alert; it is the snapshot's radius only if no other
\* radius was stored while the computation was in flight.
C20_Amended ==
    IsCalcResultStep =>
        LET stored == Coalesce(srcPaths.arrivalCircle, Num(-1)).v
            d      == Coalesce(Head(fromWorker).gc.distance, Num(-1)).v
            alerts == C19_NotificationsOn(
                          "navigation.course.arrivalCircleEntered", handled')
        IN  /\ watchArrival'.rangeMax = stored
            /\ watchArrival'.inside = (watchArrival.rangeMin <= d /\ d < stored)
            /\ \A i \in DOMAIN alerts :
                  alerts[i].state = "alert" => alerts[i].limit = stored
C20_RadiusAtApplyTime == [][C20_Amended]_vars

\* a result was just evaluated against the stored radius of 15 m and raised
\* the alert, while the next result, computed from a snapshot that had no
\* arrival circle, waits to be applied
C20_Witness ==
    /\ srcPaths.arrivalCircle = Num(15)
    /\ watchArrival.rangeMax = 15 /\ watchArrival.inside
    /\ raised["navigation.course.arrivalCircleEntered"] = "alert"
    /\ handled # <<>>
    /\ toWorker = <<>>
    /\ fromWorkerCircle = <<Null>>
    /\ IsFullBranch(fromWorker[1].gc)

----------------------------------------------------------------------------
(* The plugin started with saved options, its GET endpoint in use, one     *)
(* computation in flight at a time.                                        *)

InitPublish ==
    /\ srcPaths = NoPaths
    /\ config \in {doStartup(options) : options \in StartOptions}
    /\ courseCalcs = Undefined
    /\ watchArrival = NewWatcher
    /\ watchPassedDest = NewWatchPassedDest
    /\ toWorker = <<>>
    /\ fromWorker = <<>>
    /\ toWorkerAge = <<>>
    /\ fromWorkerAge = <<>>
    /\ fromWorkerCircle = <<>>
    /\ emitted = <<>>
    /\ handled = <<>>
    /\ raised = [p \in NotificationPaths |-> "none"]
    /\ response = NoResponse
    /\ baconSub = TRUE
    /\ obs = TRUE
    /\ activeDest = FALSE
    /\ staleCounter = 0
    /\ stalePosted = 0
    /\ staleRun = 0
    /\ hadValid = FALSE
    /\ snap = NoPaths
    /\ now = 0
    /\ pc = "ready"
    /\ res1 = <<>>
    /\ res2 = <<>>
    /\ watch = NewWatcher
    /\ watchEmitted = <<>>
    /\ watchLast = "none"

\* server.get(COURSE_CALCS_PATH, ...)
GetCalcValues ==
    /\ response' = getCalcValues(courseCalcs, config)
    /\ UNCHANGED <<srcPaths, config, courseCalcs, watchArrival,
                   watchPassedDest, toWorker, fromWorker, toWorkerAge,
                   fromWorkerAge, fromWorkerCircle, emitted, handled, raised,
                   activeDest, subsVars, staleVars, engineVars, watcherVars>>

\* a stream update that finds no computation in flight
QuietStreamUpdate == toWorker = <<>> /\ fromWorker = <<>> /\ StreamUpdate

NextPublish ==
    QuietStreamUpdate \/ WorkerMessage \/ CalcResult \/ GetCalcValues

SpecPublish == InitPublish /\ [][NextPublish]_vars

\* the branch the configuration selects
C15_Branch == IF config.method = "Rhumbline" THEN "rl" ELSE "gc"

\* C15: the calcValues delta published for a result, and the body of every
\* successful GET, hold the values of the rhumbline branch of the latest
\* applied result when the configured method is 'Rhumbline' and those of the
\* great-circle branch otherwise, every field from that one branch; the
\* arrival watcher holds the great-circle distance whatever the method.
C15_OneBranchPublished ==
    /\ handled # <<>> =>
          LET delta  == handled[Len(handled)]
              source == courseCalcs[C15_Branch]
          IN  /\ \A f \in ResultFields :
                    delta.calcValues[f] =
                        IF f = "calcMethod" THEN source[f]
                        ELSE NullIfUndefined(source[f])
              /\ delta.autopilot # <<>> =>
                    delta.autopilot = <<NullIfUndefined(source.bearingTrue),
                                        NullIfUndefined(source.bearingMagnetic)>>
    /\ response.status = 200 => response.body = courseCalcs[C15_Branch]
    /\ courseCalcs # Undefined =>
          watchArrival.value = Coalesce(courseCalcs.gc.distance, Num(-1)).v

\* Rhumbline configured; a result whose branches differ in distance (10 m by
\* great circle, 20 m by rhumb line) was published and then fetched with GET
C15_Witness ==
    /\ config.method = "Rhumbline"
    /\ handled # <<>>
    /\ handled[Len(handled)].calcValues.distance = Num(20)
    /\ response.status = 200
    /\ response.body.distance = Num(20)
    /\ watchArrival.value = 10

\* C21: a GET is answered 400 in every state without an active destination,
\* before any result was applied and after an invalidating empty result was
\* applied alike, and 200 only when the latest applied result has populated
\* course values.
C21_NoDestinationIs400 ==
    response # NoResponse =>
        LET none == \/ courseCalcs = Undefined
                    \/ IsEmptyBranch(courseCalcs[C15_Branch])
        IN  /\ none => response.status = 400
            /\ response.status = 200 => IsFullBranch(courseCalcs[C15_Branch])

----------------------------------------------------------------------------
(* The plugin stopped by the host while its worker may hold a request or   *)
(* a result.                                                               *)

\* plugin.stop: doShutdown().  The stream subscriptions and the watcher
\* subscriptions are released; worker.unref() neither ends the worker nor
\* detaches its 'message' handler, so the queues and the worker stay as
\* they are.
Stop ==
    /\ baconSub
    /\ baconSub' = FALSE
    /\ obs' = FALSE
    /\ emitted' = <<>>
    /\ handled' = <<>>
    /\ response' = NoResponse
    /\ UNCHANGED <<srcPaths, config, courseCalcs, watchArrival,
                   watchPassedDest, toWorker, fromWorker, toWorkerAge,
                   fromWorkerAge, fromWorkerCircle, raised, activeDest,
                   staleVars, engineVars, watcherVars>>

NextLifecycle == QuietStreamUpdate \/ WorkerMessage \/ CalcResult \/ Stop

SpecLifecycle == Init /\ [][NextLifecycle]_vars

\* C22: once stop() has run, nothing more is handed to server.handleMessage,
\* neither a calcValues delta nor a notification, even if a request or a
\* result was still in flight when stop() was called.
C22_SilentAfterStop == ~baconSub => handled = <<>>

\* once stop() has run, no notification is handed to server.handleMessage
C22_NoNotificationAfterStop == ~obs => NotificationsIn(handled) = <<>>

----------------------------------------------------------------------------
(* A Watcher driven by arbitrary range settings and observations.          *)

WatchValues == -1 .. MaxWatchValue

WatchStep(op) ==
    /\ watch' = op.w
    /\ watchEmitted' = op.events
    /\ watchLast' = IF op.events = <<>> THEN watchLast
                    ELSE op.events[Len(op.events)].type
    /\ UNCHANGED <<pluginVars, staleVars, engineVars, activeDest>>

WatchSetRangeMin ==
    \E v \in WatchValues : WatchStep(WatcherSetRangeMin(watch, v))
WatchSetRangeMax ==
    \E v \in WatchValues : WatchStep(WatcherSetRangeMax(watch, v))
WatchSetValue ==
    \E v \in WatchValues : WatchStep(WatcherSetValue(watch, v))

NextWatcher == WatchSetRangeMin \/ WatchSetRangeMax \/ WatchSetValue

SpecWatcher == Init /\ [][NextWatcher]_vars


\* C1: a Watcher starts Outside; an event goes out only on an operation that
\* changes the membership, never on one that leaves it unchanged, and the
\* events alternate enter, exit, enter, ... beginning with enter.
C1_Step ==
    /\ watchEmitted' # <<>> =>
          /\ Len(watchEmitted') = 1
          /\ watch'.inside # watch.inside
          /\ watchEmitted'[1].type = (IF watch'.inside THEN "enter" ELSE "exit")
          /\ watchEmitted'[1].type # watchLast
          /\ watchLast = "none" => watchEmitted'[1].type = "enter"
    /\ watch'.inside = watch.inside => watchEmitted' = <<>>
C1_EventsAlternate ==
    [](watch.inside <=> watchLast = "enter") /\ [][C1_Step]_vars

\* an exit has followed an enter, under a range that was moved
C1_Witness ==
    /\ watchLast = "exit"
    /\ watchEmitted # <<>>
    /\ watch.rangeMin > 0

----------------------------------------------------------------------------
(* The worker called twice with one snapshot.                              *)

\* one call: what calcs returns, what the handler posts, and when
Call(message, active, clock) ==
    [calc |-> calcs(message, clock),
     post |-> onMessage(message, active, clock).post,
     at   |-> clock,
     \* the vectors passedPerpendicular worked with: va, vb
     vectors |->
         IF parseSKPaths(message)
         THEN <<toVector(message.nextPoint, message.position),
                toVector(message.nextPoint, message.previousPoint)>>
         ELSE <<>>]

InitEngine ==
    /\ snap \in EngineSnapshots
    /\ activeDest \in BOOLEAN
    /\ now = 0
    /\ pc = "ready"
    /\ res1 = <<>>
    /\ res2 = <<>>
    /\ srcPaths = NoPaths
    /\ config = DefaultConfig
    /\ courseCalcs = Undefined
    /\ watchArrival = NewWatcher
    /\ watchPassedDest = NewWatchPassedDest
    /\ toWorker = <<>>
    /\ fromWorker = <<>>
    /\ toWorkerAge = <<>>
    /\ fromWorkerAge = <<>>
    /\ fromWorkerCircle = <<>>
    /\ emitted = <<>>
    /\ handled = <<>>
    /\ raised = [p \in NotificationPaths |-> "none"]
    /\ response = NoResponse
    /\ baconSub = TRUE
    /\ obs = TRUE
    /\ staleCounter = 0
    /\ stalePosted = 0
    /\ staleRun = 0
    /\ hadValid = FALSE
    /\ watch = NewWatcher
    /\ watchEmitted = <<>>
    /\ watchLast = "none"

FirstCall ==
    /\ pc = "ready"
    /\ res1' = <<Call(snap, activeDest, now)>>
    /\ activeDest' = onMessage(snap, activeDest, now).activeDest
    /\ pc' = "once"
    /\ UNCHANGED <<snap, now, res2, pluginVars, staleVars, watcherVars>>

SecondCall ==
    /\ pc = "once"
    /\ res2' = <<Call(snap, activeDest, now)>>
    /\ activeDest' = onMessage(snap, activeDest, now).activeDest
    /\ pc' = "twice"
    /\ UNCHANGED <<snap, now, res1, pluginVars, staleVars, watcherVars>>

Tick ==
    /\ now < MaxClock
    /\ now' = now + 1
    /\ UNCHANGED <<snap, pc, res1, res2, activeDest, pluginVars, staleVars,
                   watcherVars>>

NextEngine == FirstCall \/ SecondCall \/ Tick

SpecEngine == InitEngine /\ [][NextEngine]_vars


\* the calls made so far, and every result they produced
Calls == {res1[i] : i \in DOMAIN res1} \cup {res2[i] : i \in DOMAIN res2}
Results ==
    {c.calc : c \in Calls}
      \cup UNION {{c.post[i] : i \in DOMAIN c.post} : c \in Calls}

HeadingOrSpeedMissing ==
    ~IsNumber(snap.headingTrue) \/ ~IsNumber(snap.speedOverGround)

\* C6: for every snapshot in which vessel position, destination or start
\* point is absent, whatever calcs returns and whatever the worker posts has
\* both branches empty and a passage flag that is not true (calcs: false);
\* and no result of any snapshot is partially populated.
C6_EmptyWhenPointMissing ==
    /\ ~parseSKPaths(snap) =>
          /\ \A r \in Results :
                /\ IsEmptyBranch(r.gc) /\ IsEmptyBranch(r.rl)
                /\ ~Truthy(r.passedPerpendicular)
          /\ \A c \in Calls : c.calc.passedPerpendicular = Bool(FALSE)
    /\ \A r \in Results :
          \/ IsEmptyBranch(r.gc) /\ IsEmptyBranch(r.rl)
          \/ IsFullBranch(r.gc) /\ IsFullBranch(r.rl)

\* the start point alone is missing, and the worker, which had an active
\* destination, posted the invalidating result
C6_Witness ==
    /\ pc = "once"
    /\ Truthy(snap.position) /\ Truthy(snap.nextPoint)
    /\ ~Truthy(snap.previousPoint)
    /\ res1[1].post # <<>>

\* C8 as stated: two calls with the identical valid snapshot give identical
\* results in every field, estimatedTimeOfArrival included.
C8_IdenticalResults ==
    (pc = "twice" /\ parseSKPaths(snap)) =>
        /\ res1[1].calc = res2[1].calc
        /\ res1[1].post = res2[1].post

\* C8 amended: two calls with the identical valid snapshot agree in every
\* field but estimatedTimeOfArrival, whatever state earlier calls left; they
\* agree in estimatedTimeOfArrival too when the snapshot has a datetime or
\* timeToGo is null; without a datetime the two estimates differ by the time
\* that passed between the calls.
C8_IdenticalButForClock ==
    (pc = "twice" /\ parseSKPaths(snap)) =>
        LET a == res1[1]
            b == res2[1]
        IN  /\ a.post = <<a.calc>> /\ b.post = <<b.calc>>
            /\ a.calc.passedPerpendicular = b.calc.passedPerpendicular
            /\ \A f \in ResultFields \ {"estimatedTimeOfArrival"} :
                  /\ a.calc.gc[f] = b.calc.gc[f]
                  /\ a.calc.rl[f] = b.calc.rl[f]
            /\ Truthy(snap.datetime) => a.calc = b.calc
            /\ \A m \in {"gc", "rl"} :
                  LET ea == a.calc[m].estimatedTimeOfArrival
                      eb == b.calc[m].estimatedTimeOfArrival
                  IN  IF a.calc[m].timeToGo = Null
                      THEN ea = Null /\ eb = Null
                      ELSE Truthy(snap.datetime) \/ eb.v - ea.v = b.at - a.at

\* a snapshot with a datetime and a time to go, computed at two different
\* times by a worker whose activeDest differed
C8_Witness ==
    /\ pc = "twice" /\ parseSKPaths(snap)
    /\ Truthy(snap.datetime)
    /\ res1[1].calc.gc.timeToGo # Null
    /\ res2[1].at > res1[1].at

\* C9: for every valid snapshot the crossTrackError of the great-circle and
\* of the rhumbline branch are the same value, the cross-track distance of
\* the vessel from the track start -> destination.
C9_SharedCrossTrackError ==
    parseSKPaths(snap) =>
        \A r \in Results :
            /\ r.gc.crossTrackError = r.rl.crossTrackError
            /\ r.gc.crossTrackError =
                 Num(crossTrackDistanceTo(snap.position, snap.previousPoint,
                                          snap.nextPoint))

\* a vessel off the track, whose two branches differ in distance
C9_Witness ==
    /\ pc = "once" /\ parseSKPaths(snap)
    /\ res1[1].calc.gc.crossTrackError.v # 0
    /\ res1[1].calc.gc.distance # res1[1].calc.rl.distance

\* C10: for every valid snapshot lacking true heading or speed over ground,
\* velocityMadeGood, timeToGo and estimatedTimeOfArrival are null in both
\* branches, while distance, true bearings, cross-track error and
\* previous-point distance are numbers and no field is left out.
C10_NullWithoutHeadingOrSpeed ==
    (parseSKPaths(snap) /\ HeadingOrSpeedMissing) =>
        \A r \in Results : \A m \in {"gc", "rl"} :
            /\ r[m].velocityMadeGood = Null
            /\ r[m].timeToGo = Null
            /\ r[m].estimatedTimeOfArrival = Null
            /\ \A f \in {"distance", "bearingTrackTrue", "bearingTrue",
                          "crossTrackError", "previousPointDistance"} :
                  IsNumber(r[m][f])
            /\ IsFullBranch(r[m])

\* a valid snapshot with a heading but no speed over ground has been computed
C10_Witness ==
    /\ pc = "once" /\ parseSKPaths(snap)
    /\ IsNumber(snap.headingTrue) /\ ~IsNumber(snap.speedOverGround)
    /\ res1[1].post # <<>>


\* distance / (VMG x 0.514444) in milliseconds: whole part of the magnitude,
\* and whether anything was left over
C11_Quotient(distance, vmgVal) ==
    LET k == Abs(vmgVal.v * 514444)
        s == ScaleDiv((distance.v * 1000) \div k, (distance.v * 1000) % k, k, 6)
    IN  [whole |-> s.q, exact |-> s.r = 0, negative |-> vmgVal.v < 0]
\* the instant the estimate starts from: the snapshot's datetime, or the
\* time of the call when the snapshot has none
C11_Base(c) == IF Truthy(snap.datetime) THEN snap.datetime.v ELSE c.at
\* timeToGo and estimatedTimeOfArrival of one branch are null exactly when
\* they must be, and otherwise the given number of milliseconds and the
\* instant that follows from it
C11_Truncated(q) == IF q.negative THEN -q.whole ELSE q.whole
C11_Floored(q) ==
    IF q.negative /\ ~q.exact THEN -q.whole - 1 ELSE C11_Truncated(q)
C11_Branch(c, b, floored) ==
    LET nullCase == \/ ~IsNumber(b.distance)
                    \/ b.velocityMadeGood = Null
                    \/ b.velocityMadeGood = Num(0)
    IN  /\ (b.timeToGo = Null) <=> nullCase
        /\ (b.estimatedTimeOfArrival = Null) <=> nullCase
        /\ ~nullCase =>
              LET q  == C11_Quotient(b.distance, b.velocityMadeGood)
                  ms == IF floored THEN C11_Floored(q) ELSE C11_Truncated(q)
              IN  /\ b.timeToGo = Num(ms)
                  /\ b.estimatedTimeOfArrival = IsoDate(C11_Base(c) + ms)

C23_TimeToGoNotNegative ==
    parseSKPaths(snap) =>
        \A c \in Calls : \A m \in {"gc", "rl"} :
            LET b == c.calc[m]
            IN  b.timeToGo # Null =>
                    /\ b.timeToGo.v >= 0
                    /\ b.estimatedTimeOfArrival.v >= C11_Base(c)


\* C12: for every valid snapshot with a numeric magnetic variation, in the
\* great-circle and in the rhumbline branch bearingTrackMagnetic is that
\* branch's bearingTrackTrue less the variation and bearingMagnetic that
\* branch's bearingTrue less the variation; when the variation is not a
\* number the four magnetic bearings are null.
C12_MagneticBearings ==
    parseSKPaths(snap) =>
        \A r \in Results : \A m \in {"gc", "rl"} :
            IF IsNumber(snap.magneticVariation)
            THEN /\ IsNumber(r[m].bearingTrackMagnetic)
                 /\ IsNumber(r[m].bearingMagnetic)
                 /\ r[m].bearingTrackMagnetic.v =
                      r[m].bearingTrackTrue.v - snap.magneticVariation.v
                 /\ r[m].bearingMagnetic.v =
                      r[m].bearingTrue.v - snap.magneticVariation.v
            ELSE /\ r[m].bearingTrackMagnetic = Null
                 /\ r[m].bearingMagnetic = Null

\* a variation of 0 and a vessel whose great-circle and rhumbline bearings
\* to the destination differ, so that the magnetic bearings differ as well
C12_Witness ==
    /\ pc = "once" /\ parseSKPaths(snap)
    /\ snap.magneticVariation = Num(0)
    /\ res1[1].post # <<>>
    /\ res1[1].post[1].gc.bearingMagnetic # res1[1].post[1].rl.bearingMagnetic

----------------------------------------------------------------------------
(* The worker computing the passage flag of snapshots around a destination *)
(* and around the antimeridian.                                            *)

InitPassage ==
    /\ snap \in PassageSnapshots
    /\ activeDest = FALSE
    /\ now = 0
    /\ pc = "ready"
    /\ res1 = <<>>
    /\ res2 = <<>>
    /\ srcPaths = NoPaths
    /\ config = DefaultConfig
    /\ courseCalcs = Undefined
    /\ watchArrival = NewWatcher
    /\ watchPassedDest = NewWatchPassedDest
    /\ toWorker = <<>>
    /\ fromWorker = <<>>
    /\ toWorkerAge = <<>>
    /\ fromWorkerAge = <<>>
    /\ fromWorkerCircle = <<>>
    /\ emitted = <<>>
    /\ handled = <<>>
    /\ raised = [p \in NotificationPaths |-> "none"]
    /\ response = NoResponse
    /\ baconSub = TRUE
    /\ obs = TRUE
    /\ staleCounter = 0
    /\ stalePosted = 0
    /\ staleRun = 0
    /\ hadValid = FALSE
    /\ watch = NewWatcher
    /\ watchEmitted = <<>>
    /\ watchLast = "none"

SpecPassage == InitPassage /\ [][NextEngine]_vars

\* no longitude of the snapshot is within 10 degrees of the antimeridian
C13_AwayFromAntimeridian ==
    \A f \in {"position", "nextPoint", "previousPoint"} :
        Abs(snap[f].longitude) <= 170
\* dot product of destination->vessel and destination->start, differences
\* taken by plain subtraction
C13_Dot ==
    (snap.position.longitude - snap.nextPoint.longitude)
        * (snap.previousPoint.longitude - snap.nextPoint.longitude)
      + (snap.position.latitude - snap.nextPoint.latitude)
        * (snap.previousPoint.latitude - snap.nextPoint.latitude)

\* C13 as stated: for vessel, destination and start away from the
\* antimeridian the passage flag is true exactly when the dot product of
\* destination->vessel and destination->start is negative (the angle at the
\* destination is above 90 degrees), and false otherwise.
C13_FlagIsDotSign ==
    (parseSKPaths(snap) /\ C13_AwayFromAntimeridian) =>
        \A c \in Calls :
            c.calc.passedPerpendicular = Bool(C13_Dot < 0)

\* one longitude is beyond +170 and the other negative, or one is beyond
\* -170 and the other positive
C14_Straddles(a, b) ==
    \/ a > 170 /\ b < 0
    \/ b > 170 /\ a < 0
    \/ a < -170 /\ b > 0
    \/ b < -170 /\ a > 0
\* the difference b - a taken across the antimeridian
C14_Across(a, b) == IF b < a THEN b - a + 360 ELSE b - a - 360

\* C14 as stated: whenever the destination's longitude and the longitude of
\* the vessel (or of the start point) straddle the antimeridian in that
\* sense, the passage vector's longitude difference is the one across the
\* antimeridian, not the plain subtraction (179 and -179 give 2, not 358).
C14_WrapsAcrossAntimeridian ==
    parseSKPaths(snap) =>
        \A c \in Calls :
            LET a == snap.nextPoint.longitude
            IN  /\ C14_Straddles(a, snap.position.longitude) =>
                      c.vectors[1].x = C14_Across(a, snap.position.longitude)
                /\ C14_Straddles(a, snap.previousPoint.longitude) =>
                      c.vectors[2].x =
                          C14_Across(a, snap.previousPoint.longitude)

\* C24: for origin and end longitudes within [-180, 180], the longitude
\* difference of each passage vector is at most 180 in absolute value, the
\* shortest way between the two meridians, whichever of the two points lies
\* near the antimeridian.
C24_ShortestWayDifference ==
    parseSKPaths(snap) =>
        \A c \in Calls : \A i \in DOMAIN c.vectors :
            Abs(c.vectors[i].x) <= 180

----------------------------------------------------------------------------
(* The worker (activeDest) fed a stream of messages; nobody takes the      *)
(* results, fromWorker holds what the latest message posted.               *)

ActiveDestWorkerMessage ==
    \E message \in WorkerInputs :
        LET out   == onMessage(message, activeDest, now)
            valid == parseSKPaths(message)
        IN  /\ valid \/ staleRun < MaxStaleRun
            /\ activeDest' = out.activeDest
            /\ fromWorker' = out.post
            /\ fromWorkerAge' = [i \in DOMAIN out.post |-> 0]
            /\ fromWorkerCircle' =
                  [i \in DOMAIN out.post |-> message.arrivalCircle]
            /\ staleRun' = IF valid THEN 0 ELSE staleRun + 1
            /\ stalePosted' = IF valid THEN 0
                              ELSE stalePosted + Len(out.post)
            /\ hadValid' = (hadValid \/ valid)
            /\ UNCHANGED <<srcPaths, config, courseCalcs, watchArrival,
                           watchPassedDest, toWorker, toWorkerAge, emitted,
                           handled, raised, response, subsVars,
                           staleCounter, engineVars, watcherVars>>

NextActiveDest == ActiveDestWorkerMessage

SpecActiveDest == Init /\ [][NextActiveDest]_vars

\* C16: a valid message posts a computed result; the first insufficient
\* message after a valid one posts the invalidating empty result, once;
\* every further insufficient message of the run posts nothing; and before
\* the first valid message nothing is posted at all.
C16_InvalidateOnceAfterValid ==
    /\ ~hadValid => fromWorker = <<>> /\ stalePosted = 0
    /\ (hadValid /\ staleRun = 0) =>
          /\ Len(fromWorker) = 1
          /\ IsFullBranch(fromWorker[1].gc) /\ IsFullBranch(fromWorker[1].rl)
    /\ (hadValid /\ staleRun = 1) => fromWorker = <<InvalidatingResult>>
    /\ (hadValid /\ staleRun > 1) => fromWorker = <<>>
    /\ (hadValid /\ staleRun >= 1) => stalePosted = 1

\* a stale run that outlasted MAX_STALE_COUNT messages after a valid one,
\* whose latest message posted nothing
C16_Witness ==
    /\ hadValid
    /\ staleRun > MAX_STALE_COUNT
    /\ stalePosted = 1
    /\ fromWorker = <<>>

----------------------------------------------------------------------------
(* The counter-based worker fed a stream of messages.                      *)

CountingWorkerMessage ==
    \E message \in WorkerInputs :
        LET out   == onMessageCounting(message, staleCounter)
            valid == parseSKPathsCounting(message, staleCounter).valid
        IN  /\ valid \/ staleRun < MaxStaleRun
            /\ staleCounter' = out.staleCounter
            /\ staleRun' = IF valid THEN 0 ELSE staleRun + 1
            /\ stalePosted' = IF valid THEN 0
                              ELSE stalePosted + Len(out.post)
            /\ hadValid' = (hadValid \/ valid)
            /\ UNCHANGED <<pluginVars, engineVars, watcherVars, activeDest>>

NextCounting == CountingWorkerMessage

SpecCounting == Init /\ [][NextCounting]_vars

\* C7: in an unbroken run of insufficient-input messages that follows an
\* active destination, the invalidating result is posted exactly once: never
\* a second time in the same run, and it has been posted once the run is
\* longer than MAX_STALE_COUNT messages.
C7_OncePerStaleRun ==
    hadValid =>
        /\ stalePosted <= 1
        /\ staleRun > MAX_STALE_COUNT => stalePosted = 1

====
